---- MODULE Spec2Model ----
(***************************************************************************)
(* Model of the production server of the S3 file manager                   *)
(* (src/unnamed/part_012): the authorization gate (checkUserAuthorization, *)
(* requireAdmin), the allow-list CRUD handlers, the activity log, and the  *)
(* credential lease (initializeS3Client / ensureS3Client /                 *)
(* handleExpiredTokenError) in front of the storage handlers.              *)
(*                                                                         *)
(* Node runs one callback at a time: everything a handler does between two *)
(* awaits is one atomic action.  A request occupies a slot of `req` from   *)
(* the moment it is received until its response is written.                *)
(*                                                                         *)
(* Strings are sequences of one-character strings so that toLowerCase and  *)
(* trim are computed, not assumed.  The default admin 'admin@turing.com'   *)
(* is written <<"a">>.  Not modelled: addedAt, file names, sizes and the   *)
(* free-text details of a log record, the listing payloads.                *)
(*                                                                         *)
(* Two smaller parts stand beside it: the browser client's error path      *)
(* (src/src/services/apiService.ts, hooks/useS3.ts, S3ConfigContext.tsx)   *)
(* and the POST /api/s3/init route of the older server (src/server.js).    *)
(***************************************************************************)
EXTENDS Integers, Sequences, FiniteSets

VARIABLES
  NODE_ENV,             \* process.env.NODE_ENV, fixed at start
  roleArn,              \* AWS_CONFIG.roleArn is set (TRUE) or not (FALSE)
  usersFile,            \* content of data/authorized-users.json (.users)
  deleted,              \* history: identifiers deleted and not added again since
  activityFile,         \* content of data/activity.json (.activities)
  s3Client,             \* 0 = null, otherwise the identity of the S3Client object
  isInitialized,
  tokenExpirationTime,  \* Null or a time in ms
  now,                  \* Date.now()
  provCalls,            \* number of initializeS3Client calls that passed line 285
  boot,                 \* the startup call of initializeS3Client (line 399)
  req,                  \* the requests being served
  browser,              \* the browser client: stored config, call in flight, last error
  legacy,               \* src/server.js: s3Client, bucketName, isInitializing, lastConfig
  initReq               \* src/server.js: the POST /api/s3/init requests being served

vars == <<NODE_ENV, roleArn, usersFile, deleted, activityFile, s3Client, isInitialized,
          tokenExpirationTime, now, provCalls, boot, req, browser, legacy, initReq>>

\* the production server, and what stands beside it
serverVars == <<NODE_ENV, roleArn, usersFile, deleted, activityFile, s3Client,
                isInitialized, tokenExpirationTime, now, provCalls, boot, req>>
sideVars == <<browser, legacy, initReq>>

listVars == <<usersFile, deleted>>
authVars == <<usersFile, deleted, activityFile>>
leaseVars == <<s3Client, isInitialized, tokenExpirationTime>>

----------------------------------------------------------------------------
(* Bounds of the model *)

MaxReqs == 1         \* request slots
MaxUsers == 3        \* no add request is sent once the allow-list is this long
MaxLog == 1          \* no logging request is sent once the log is this long
MaxProv == 3         \* no request is sent once this many provisioning calls were made
MaxTicks == 2        \* the clock stops after this many periods of TickMs
MaxJitter == 1       \* ms the clock may be past a period boundary
MaxWrites == 2       \* records added to a log that was found filled
MaxRacers == 2       \* request slots of the specification of concurrent requests

Reqs == 1..MaxReqs

----------------------------------------------------------------------------
(* Strings *)

Letters == {"a", "A", "b", "B"}
Space == " "

\* a value that is not a string: an absent header, body field or property
undefined == <<"undefined">>

\* the identity strings that are sent, in both letter cases
Names == {<<c>> : c \in Letters}

\* header values as Node delivers them (no surrounding white space)
HeaderValues == Names \cup {<<>>, undefined}
\* the email field of a body
BodyStrings == Names \cup {<<>>, <<Space>>, <<Space, "b">>, <<"A", Space>>, undefined}
\* the decoded :email parameter of a URL
ParamStrings == Names \cup {<<Space>>, <<"b", Space>>}
BodyRoles == {"admin", "user", "owner", ""}

LowerChar(c) == CASE c = "A" -> "a" [] c = "B" -> "b" [] OTHER -> c

toLowerCase(s) == [i \in 1..Len(s) |-> LowerChar(s[i])]

RECURSIVE trimStart(_)
trimStart(s) == IF s # <<>> /\ Head(s) = Space THEN trimStart(Tail(s)) ELSE s

RECURSIVE trimEnd(_)
trimEnd(s) ==
  IF s # <<>> /\ s[Len(s)] = Space THEN trimEnd(SubSeq(s, 1, Len(s) - 1)) ELSE s

trim(s) == trimEnd(trimStart(s))

\* JavaScript truthiness of a string-or-undefined value
Falsy(s) == s = undefined \/ s = <<>>

----------------------------------------------------------------------------
(* The allow-list *)

DefaultAdmin == <<"a">>

NoUser == [email |-> undefined, role |-> "", addedBy |-> undefined]

\* the principal assumed when the gate is bypassed (line 143)
BypassUser == [email |-> DefaultAdmin, role |-> "admin", addedBy |-> undefined]

\* initializeAuthorizedUsersFile: the file a first start writes
defaultUsers == << [email |-> DefaultAdmin, role |-> "admin", addedBy |-> <<"s", "y", "s">>] >>

\* Array.prototype.findIndex on user => user.email.toLowerCase() === lowered;
\* 0 stands for "not found"
findIndex(users, lowered) ==
  LET hits == {i \in 1..Len(users) : toLowerCase(users[i].email) = lowered}
  IN IF hits = {} THEN 0 ELSE CHOOSE i \in hits : \A j \in hits : i <= j

\* mutant: the index is taken one too low (splice(-1, 1) removes the last entry)
SpliceOffByOne(users, i) ==
  LET k == IF i = 1 THEN Len(users) ELSE i - 1
  IN [j \in 1..(Len(users) - 1) |-> IF j < k THEN users[j] ELSE users[j + 1]]

Splice(users, i) == [j \in 1..(Len(users) - 1) |-> IF j < i THEN users[j] ELSE users[j + 1]]

----------------------------------------------------------------------------
(* The authorization gate *)

Pass(user) == [next |-> TRUE, status |-> 0, error |-> "", user |-> user]
Reject(status, error) == [next |-> FALSE, status |-> status, error |-> error, user |-> NoUser]

\* mutant: the header is compared without being lowered
checkUserAuthorizationCaseSensitive(header) ==
  IF NODE_ENV # "production" THEN Pass(BypassUser)
  ELSE IF Falsy(header) THEN Reject(401, "UNAUTHORIZED")
  ELSE LET k == findIndex(usersFile, header)
       IN IF k = 0 THEN Reject(403, "ACCESS_DENIED") ELSE Pass(usersFile[k])

checkUserAuthorization(header) ==
  IF NODE_ENV # "production" THEN Pass(BypassUser)
  ELSE IF Falsy(header) THEN Reject(401, "UNAUTHORIZED")
  ELSE LET k == findIndex(usersFile, toLowerCase(header))
       IN IF k = 0 THEN Reject(403, "ACCESS_DENIED") ELSE Pass(usersFile[k])

\* mutant: any attached user passes
requireAdminAnyUser(user) ==
  IF user = NoUser THEN Reject(403, "ADMIN_REQUIRED") ELSE Pass(user)

requireAdmin(user) ==
  IF user = NoUser \/ user.role # "admin" THEN Reject(403, "ADMIN_REQUIRED") ELSE Pass(user)

----------------------------------------------------------------------------
(* The credential lease: s3Client, isInitialized, tokenExpirationTime *)

Null == -1

\* candidate session durations in seconds, in the order the loop tries them
durations == <<900, 1800, 3600>>

Lease == [client |-> s3Client, init |-> isInitialized, exp |-> tokenExpirationTime]

\* mutant: a token counts as expired at its expiry time already
areTokensExpiredInclusive(exp) == IF exp = Null THEN FALSE ELSE now >= exp

areTokensExpired(exp) == IF exp = Null THEN FALSE ELSE now > exp

\* what ensureS3Client tests before it calls initializeS3Client
needsInit(lease) == ~lease.init \/ areTokensExpired(lease.exp)

\* the early return of initializeS3Client
usesExisting(lease) == lease.init /\ lease.client # 0 /\ ~areTokensExpired(lease.exp)

\* mutant: every failure of a storage call is taken for an expired token
isExpiredTokenErrorAny(err, lease) == TRUE

\* the test of handleExpiredTokenError; err is the class of the caught error
isExpiredTokenError(err, lease) == err = "ExpiredToken" \/ areTokensExpired(lease.exp)

\* mutant: the invalidation clears the flag and keeps the client
dropFlagOnly(lease) == [lease EXCEPT !.init = FALSE]

\* mutant: the client is dropped but the lease stays marked initialized
dropClientOnly(lease) == [lease EXCEPT !.client = 0]

\* the assignments of handleExpiredTokenError, and of the catch of initializeS3Client
dropClient(lease) == [lease EXCEPT !.client = 0, !.init = FALSE]

\* no role: the client is built from the long-lived keys
directClient(call) == [client |-> call, init |-> TRUE, exp |-> Null]

\* mutant: the client of a successful provisioning replaces the old one only when
\* the slot was empty, while the expiry is always overwritten
assumedClientKeepsOld(call, attempt) ==
  [client |-> IF s3Client = 0 THEN call ELSE s3Client, init |-> TRUE,
   exp |-> now + durations[attempt] * 1000]

\* mutant: the duration is not added to the expiry
assumedClientNoDuration(call, attempt) == [client |-> call, init |-> TRUE, exp |-> now]

\* role assumed at the attempt-th duration: expiry first, then the client
assumedClient(call, attempt) ==
  [client |-> call, init |-> TRUE, exp |-> now + durations[attempt] * 1000]

----------------------------------------------------------------------------
(* The activity log *)

RetentionCap == 1000

\* what the file system does to one logActivity: the read and the write of the file
\* each succeed or throw
Disks == [readable : BOOLEAN, writable : BOOLEAN]

\* loadActivityLogs: a read that throws yields an empty list
loadActivityLogs(log, disk) == IF disk.readable THEN log ELSE <<>>

\* saveActivityLogs: a write that throws leaves the file as it was (the error is
\* only printed)
saveActivityLogs(log, activities, disk) == IF disk.writable THEN activities ELSE log

\* logActivity: load, unshift the record, keep the first RetentionCap, save
logActivity(log, userEmail, action, status, disk) ==
  LET newActivity == [userEmail |-> userEmail, action |-> action, status |-> status,
                      timestamp |-> now]
      added == <<newActivity>> \o loadActivityLogs(log, disk)
      kept == IF Len(added) > RetentionCap THEN SubSeq(added, 1, RetentionCap) ELSE added
  IN saveActivityLogs(log, kept, disk)

\* req.user?.email || 'unknown'
emailOrUnknown(user) == IF Falsy(user.email) THEN <<"?">> ELSE user.email

----------------------------------------------------------------------------
(* Requests *)

UserRoutes == {"GET users", "POST users", "PUT users", "DELETE users", "GET activities"}
AdminRoutes == UserRoutes \ {"GET users"}
ListRoutes == {"GET test", "GET folders", "GET files"}
AuditedRoutes == {"POST upload", "DELETE delete", "POST presigned"}
StorageRoutes == ListRoutes \cup AuditedRoutes
LogRoute == "POST log-download"

Idle ==
  [pc |-> "idle", route |-> "", header |-> undefined, target |-> undefined,
   role |-> "", file |-> FALSE, key |-> FALSE, logStatus |-> "",
   user |-> NoUser, status |-> 0, error |-> "", listing |-> {},
   was |-> "", attempt |-> 0, call |-> 0, client |-> 0, prov |-> 0, outcome |-> ""]

\* the slot after the response was written
Done(r, status, error, user, listing) ==
  [r EXCEPT !.pc = "done", !.status = status, !.error = error, !.user = user,
            !.listing = listing, !.attempt = 0, !.call = 0, !.client = 0]

Respond(i, status, error, user) ==
  req' = [req EXCEPT ![i] = Done(req[i], status, error, user, {})]

Received(i, route) == req[i].pc = "recv" /\ req[i].route = route

\* a request arrives and is parsed; it takes the lowest free slot
Receive(i, route, header, target, role, file, key, logStatus) ==
  /\ req[i].pc \in {"idle", "done"}
  /\ \A j \in DOMAIN req : j < i => req[j].pc \notin {"idle", "done"}
  /\ req' = [req EXCEPT ![i] =
               [Idle EXCEPT !.pc = "recv", !.route = route, !.header = header,
                            !.target = target, !.role = role, !.file = file,
                            !.key = key, !.logStatus = logStatus]]
  /\ UNCHANGED <<sideVars, NODE_ENV, roleArn, authVars, leaseVars, now, provCalls, boot>>

\* a request is sent while the allow-list, the log and the number of provisioning
\* calls are below their bounds
Send(i, route, header, target, role, file, key, logStatus) ==
  /\ route = "POST users" => Len(usersFile) < MaxUsers
  /\ route \in AuditedRoutes \cup {LogRoute} => Len(activityFile) < MaxLog
  /\ route \in StorageRoutes => provCalls < MaxProv
  /\ Receive(i, route, header, target, role, file, key, logStatus)

----------------------------------------------------------------------------
(* Allow-list handlers: each is one synchronous middleware chain *)

Emails(users) == {users[k].email : k \in 1..Len(users)}

\* mutant: the new email is trimmed but not lowered
normalizeEmailNoLower(email) == trim(email)

\* email.trim().toLowerCase() of the add handler
normalizeEmail(email) == toLowerCase(trim(email))

\* mutant: the parameter is not lowered
targetOfRaw(param) == param

\* decodeURIComponent(req.params.email).toLowerCase(); param is the decoded value
targetOf(param) == toLowerCase(param)

\* mutant: no target is taken to be the caller
isSelfNever(targetEmail, user) == FALSE

\* targetEmail === req.user.email.toLowerCase()
isSelf(targetEmail, user) == targetEmail = toLowerCase(user.email)

\* GET /api/users/authorized
GetUsers(i) ==
  /\ Received(i, "GET users")
  /\ LET g == checkUserAuthorization(req[i].header)
     IN IF ~g.next THEN Respond(i, g.status, g.error, NoUser)
        ELSE req' = [req EXCEPT ![i] = Done(req[i], 200, "", g.user, Emails(usersFile))]
  /\ UNCHANGED <<sideVars, NODE_ENV, roleArn, authVars, leaseVars, now, provCalls, boot>>

\* POST /api/users/authorized; saved = FALSE is saveAuthorizedUsers failing
AddUser(i, saved) ==
  /\ Received(i, "POST users")
  /\ LET r == req[i]
         g == checkUserAuthorization(r.header)
         a == requireAdmin(g.user)
         normalizedEmail == normalizeEmail(r.target)
         newUser == [email |-> normalizedEmail, role |-> r.role, addedBy |-> g.user.email]
     IN IF ~g.next THEN Respond(i, g.status, g.error, NoUser) /\ UNCHANGED listVars
        ELSE IF ~a.next THEN Respond(i, a.status, a.error, g.user) /\ UNCHANGED listVars
        ELSE IF Falsy(r.target) \/ Falsy(trim(r.target))
          THEN Respond(i, 400, "INVALID_EMAIL", g.user) /\ UNCHANGED listVars
        ELSE IF r.role \notin {"admin", "user"}
          THEN Respond(i, 400, "INVALID_ROLE", g.user) /\ UNCHANGED listVars
        ELSE IF findIndex(usersFile, normalizedEmail) # 0
          THEN Respond(i, 409, "USER_EXISTS", g.user) /\ UNCHANGED listVars
        ELSE IF ~saved
          THEN Respond(i, 500, "SAVE_FAILED", g.user) /\ UNCHANGED listVars
        ELSE /\ usersFile' = Append(usersFile, newUser)
             /\ deleted' = deleted \ {normalizedEmail}
             /\ Respond(i, 200, "", g.user)
  /\ UNCHANGED <<sideVars, NODE_ENV, roleArn, activityFile, leaseVars, now, provCalls, boot>>

\* PUT /api/users/authorized/:email
UpdateUser(i, saved) ==
  /\ Received(i, "PUT users")
  /\ LET r == req[i]
         g == checkUserAuthorization(r.header)
         a == requireAdmin(g.user)
         targetEmail == targetOf(r.target)
         userIndex == findIndex(usersFile, targetEmail)
     IN IF ~g.next THEN Respond(i, g.status, g.error, NoUser) /\ UNCHANGED listVars
        ELSE IF ~a.next THEN Respond(i, a.status, a.error, g.user) /\ UNCHANGED listVars
        ELSE IF r.role \notin {"admin", "user"}
          THEN Respond(i, 400, "INVALID_ROLE", g.user) /\ UNCHANGED listVars
        ELSE IF userIndex = 0
          THEN Respond(i, 404, "USER_NOT_FOUND", g.user) /\ UNCHANGED listVars
        ELSE IF isSelf(targetEmail, g.user) /\ r.role # "admin"
          THEN Respond(i, 400, "CANNOT_DEMOTE_SELF", g.user) /\ UNCHANGED listVars
        ELSE IF ~saved
          THEN Respond(i, 500, "SAVE_FAILED", g.user) /\ UNCHANGED listVars
        ELSE /\ usersFile' = [usersFile EXCEPT ![userIndex].role = r.role]
             /\ UNCHANGED deleted
             /\ Respond(i, 200, "", g.user)
  /\ UNCHANGED <<sideVars, NODE_ENV, roleArn, activityFile, leaseVars, now, provCalls, boot>>

\* DELETE /api/users/authorized/:email
DeleteUser(i, saved) ==
  /\ Received(i, "DELETE users")
  /\ LET r == req[i]
         g == checkUserAuthorization(r.header)
         a == requireAdmin(g.user)
         targetEmail == targetOf(r.target)
         userIndex == findIndex(usersFile, targetEmail)
     IN IF ~g.next THEN Respond(i, g.status, g.error, NoUser) /\ UNCHANGED listVars
        ELSE IF ~a.next THEN Respond(i, a.status, a.error, g.user) /\ UNCHANGED listVars
        ELSE IF isSelf(targetEmail, g.user)
          THEN Respond(i, 400, "CANNOT_DELETE_SELF", g.user) /\ UNCHANGED listVars
        ELSE IF userIndex = 0
          THEN Respond(i, 404, "USER_NOT_FOUND", g.user) /\ UNCHANGED listVars
        ELSE IF ~saved
          THEN Respond(i, 500, "SAVE_FAILED", g.user) /\ UNCHANGED listVars
        ELSE /\ usersFile' = Splice(usersFile, userIndex)
             /\ deleted' = deleted \cup {targetEmail}
             /\ Respond(i, 200, "", g.user)
  /\ UNCHANGED <<sideVars, NODE_ENV, roleArn, activityFile, leaseVars, now, provCalls, boot>>

\* GET /api/activities
GetActivities(i) ==
  /\ Received(i, "GET activities")
  /\ LET g == checkUserAuthorization(req[i].header)
         a == requireAdmin(g.user)
     IN IF ~g.next THEN Respond(i, g.status, g.error, NoUser)
        ELSE IF ~a.next THEN Respond(i, a.status, a.error, g.user)
        ELSE Respond(i, 200, "", g.user)
  /\ UNCHANGED <<sideVars, NODE_ENV, roleArn, authVars, leaseVars, now, provCalls, boot>>

----------------------------------------------------------------------------
(* Storage handlers.  Each operator below is the synchronous run of code   *)
(* between two awaits, computed on the lease and the log it is given; its  *)
(* result is the request's slot, the lease and the log it leaves.          *)

Out(slot, lease, log) == [slot |-> slot, lease |-> lease, log |-> log]

auditAction(route) ==
  CASE route = "POST upload" -> "upload"
    [] route = "DELETE delete" -> "delete"
    [] OTHER -> "download"

\* the catch block of a storage handler: the audited handlers log the failure,
\* then all run handleExpiredTokenError
catchError(r, lease, log, err, disk) ==
  LET log2 == IF r.route \in AuditedRoutes
                THEN logActivity(log, emailOrUnknown(r.user), auditAction(r.route),
                                 "failed", disk)
                ELSE log
  IN IF isExpiredTokenError(err, lease)
       THEN Out(Done(r, 401, "TOKEN_EXPIRED", r.user, {}), dropClient(lease), log2)
       ELSE Out(Done(r, 500, err, r.user, {}), lease, log2)

\* s3Client.send(command) / getSignedUrl(s3Client, ...): a null client throws
sendCommand(r, lease, log, disk) ==
  IF lease.client = 0
    THEN catchError([r EXCEPT !.outcome = "TypeError"], lease, log, "TypeError", disk)
  ELSE Out([r EXCEPT !.pc = "s3", !.client = lease.client], lease, log)

\* the handler, entered through next() of ensureS3Client
runHandler(r, lease, log, disk) ==
  IF r.route \in ListRoutes THEN sendCommand(r, lease, log, disk)
  ELSE IF r.route = "POST upload" THEN Out([r EXCEPT !.pc = "multer"], lease, log)
  ELSE IF ~r.key THEN Out(Done(r, 400, "KEY_REQUIRED", r.user, {}), lease, log)
  ELSE IF lease.client = 0 THEN sendCommand(r, lease, log, disk)
  ELSE Out([r EXCEPT !.pc = "head", !.client = lease.client], lease, log)

\* the upload handler, entered when multer has parsed the body
uploadHandler(r, lease, log, disk) ==
  IF ~r.file THEN Out(Done(r, 400, "NO_FILE", r.user, {}), lease, log)
  ELSE IF ~r.key THEN catchError(r, lease, log, "TypeError", disk)
  ELSE sendCommand(r, lease, log, disk)

\* mutant: a storage call that succeeded is answered 500 when the audit write fails
afterSendAuditChecked(r, lease, log, outcome, disk) ==
  LET returned == [r EXCEPT !.outcome = outcome]
  IN IF outcome # "ok" THEN catchError(returned, lease, log, outcome, disk)
     ELSE IF r.route \in AuditedRoutes /\ ~(disk.readable /\ disk.writable)
       THEN Out(Done(returned, 500, "AUDIT_FAILED", r.user, {}), lease, log)
     ELSE Out(Done(returned, 200, "", r.user, {}), lease,
              IF r.route \in AuditedRoutes
                THEN logActivity(log, r.user.email, auditAction(r.route), "success", disk)
                ELSE log)

\* the storage call of an audited handler returned
afterSend(r, lease, log, outcome, disk) ==
  LET returned == [r EXCEPT !.outcome = outcome]
  IN IF outcome = "ok"
       THEN Out(Done(returned, 200, "", r.user, {}), lease,
                IF r.route \in AuditedRoutes
                  THEN logActivity(log, r.user.email, auditAction(r.route), "success", disk)
                  ELSE log)
       ELSE catchError(returned, lease, log, outcome, disk)

\* history: what the lease was when ensureS3Client looked at it
leaseSeen(lease) ==
  IF ~lease.init THEN "none"
  ELSE IF lease.exp # Null /\ now > lease.exp THEN "stale"
  ELSE "fresh"

\* ensureS3Client up to its await or its next(); call numbers the provisioning
\* call this request would make
ensureS3Client(r, lease, log, call, disk) ==
  LET seen == [r EXCEPT !.was = leaseSeen(lease)]
  IN IF needsInit(lease) /\ ~usesExisting(lease)
       THEN IF roleArn
              THEN Out([seen EXCEPT !.pc = "sts", !.attempt = 1, !.call = call,
                                    !.prov = @ + 1],
                       lease, log)
              ELSE runHandler([seen EXCEPT !.call = call, !.prov = @ + 1],
                              directClient(call), log, disk)
       ELSE runHandler(seen, lease, log, disk)

\* mutant: a request whose provisioning failed is logged as a failed operation
assumeRoleReturnedAudited(r, lease, log, outcome, disk) ==
  IF outcome = "ok"
    THEN runHandler(r, assumedClient(r.call, r.attempt), log, disk)
  ELSE IF outcome = "DurationSeconds exceeds" /\ r.attempt < Len(durations)
    THEN Out([r EXCEPT !.attempt = @ + 1], lease, log)
  ELSE Out(Done(r, 500, "AWS_INITIALIZATION_FAILED", r.user, {}), dropClient(lease),
           logActivity(log, emailOrUnknown(r.user), auditAction(r.route), "failed", disk))

\* mutant: every failed attempt is followed by the next duration
assumeRoleReturnedRetryAll(r, lease, log, outcome, disk) ==
  IF outcome = "ok"
    THEN runHandler(r, assumedClient(r.call, r.attempt), log, disk)
  ELSE IF r.attempt < Len(durations)
    THEN Out([r EXCEPT !.attempt = @ + 1], lease, log)
  ELSE Out(Done(r, 500, "AWS_INITIALIZATION_FAILED", r.user, {}), dropClient(lease), log)

\* one AssumeRole attempt of initializeS3Client returned
assumeRoleReturned(r, lease, log, outcome, disk) ==
  IF outcome = "ok"
    THEN runHandler(r, assumedClient(r.call, r.attempt), log, disk)
  ELSE IF outcome = "DurationSeconds exceeds" /\ r.attempt < Len(durations)
    THEN Out([r EXCEPT !.attempt = @ + 1], lease, log)
  ELSE Out(Done(r, 500, "AWS_INITIALIZATION_FAILED", r.user, {}), dropClient(lease), log)

Install(i, out) ==
  /\ req' = [req EXCEPT ![i] = out.slot]
  /\ s3Client' = out.lease.client
  /\ isInitialized' = out.lease.init
  /\ tokenExpirationTime' = out.lease.exp
  /\ activityFile' = out.log
  /\ provCalls' = IF out.slot.prov > req[i].prov THEN provCalls + 1 ELSE provCalls

StsOutcomes == {"ok", "DurationSeconds exceeds", "AccessDenied"}
S3Outcomes == {"ok", "ExpiredToken", "AccessDenied"}

\* a storage request runs its middleware: the gate where the route has one,
\* then ensureS3Client
BeginStorage(i, disk) ==
  /\ req[i].pc = "recv" /\ req[i].route \in StorageRoutes
  /\ LET r == req[i]
         g == IF r.route \in AuditedRoutes THEN checkUserAuthorization(r.header)
              ELSE Pass(NoUser)
     IN IF ~g.next
          THEN Install(i, Out(Done(r, g.status, g.error, NoUser, {}), Lease, activityFile))
          ELSE Install(i, ensureS3Client([r EXCEPT !.user = g.user], Lease, activityFile,
                                         provCalls + 1, disk))
  /\ UNCHANGED <<sideVars, NODE_ENV, roleArn, listVars, now, boot>>

StsReturn(i, outcome, disk) ==
  /\ req[i].pc = "sts"
  /\ Install(i, assumeRoleReturned(req[i], Lease, activityFile, outcome, disk))
  /\ UNCHANGED <<sideVars, NODE_ENV, roleArn, listVars, now, boot>>

MulterDone(i, disk) ==
  /\ req[i].pc = "multer"
  /\ Install(i, uploadHandler(req[i], Lease, activityFile, disk))
  /\ UNCHANGED <<sideVars, NODE_ENV, roleArn, listVars, now, boot>>

\* the HeadObject call returned; its failure is only printed
HeadReturn(i, disk) ==
  /\ req[i].pc = "head"
  /\ Install(i, sendCommand(req[i], Lease, activityFile, disk))
  /\ UNCHANGED <<sideVars, NODE_ENV, roleArn, listVars, now, boot>>

S3Return(i, outcome, disk) ==
  /\ req[i].pc = "s3"
  /\ Install(i, afterSend(req[i], Lease, activityFile, outcome, disk))
  /\ UNCHANGED <<sideVars, NODE_ENV, roleArn, listVars, now, boot>>

\* POST /api/s3/activities/log-download
LogDownload(i, disk) ==
  /\ Received(i, LogRoute)
  /\ LET r == req[i]
         g == checkUserAuthorization(r.header)
     IN IF ~g.next THEN Respond(i, g.status, g.error, NoUser) /\ UNCHANGED activityFile
        ELSE IF ~r.key
          THEN Respond(i, 400, "FIELDS_REQUIRED", g.user) /\ UNCHANGED activityFile
        ELSE /\ activityFile' = logActivity(activityFile, g.user.email, "download",
                                            r.logStatus, disk)
             /\ Respond(i, 200, "", g.user)
  /\ UNCHANGED <<sideVars, NODE_ENV, roleArn, listVars, leaseVars, now, provCalls, boot>>

\* the startup call of initializeS3Client: one AssumeRole attempt returned
BootReturn(outcome) ==
  /\ boot.pc = "sts"
  /\ IF outcome = "ok"
       THEN /\ boot' = [boot EXCEPT !.pc = "done", !.result = "ok"]
            /\ s3Client' = assumedClient(boot.call, boot.attempt).client
            /\ isInitialized' = TRUE
            /\ tokenExpirationTime' = assumedClient(boot.call, boot.attempt).exp
     ELSE IF outcome = "DurationSeconds exceeds" /\ boot.attempt < Len(durations)
       THEN boot' = [boot EXCEPT !.attempt = @ + 1] /\ UNCHANGED leaseVars
     ELSE /\ boot' = [boot EXCEPT !.pc = "done", !.result = "failed"]
          /\ s3Client' = dropClient(Lease).client
          /\ isInitialized' = dropClient(Lease).init
          /\ UNCHANGED tokenExpirationTime
  /\ UNCHANGED <<sideVars, NODE_ENV, roleArn, authVars, now, provCalls, req>>

\* the clock advances
TickMs == durations[1] * 1000
Tick(ms) ==
  /\ now + ms <= MaxTicks * TickMs + MaxJitter
  /\ (now + ms) % TickMs <= MaxJitter
  /\ now' = now + ms
  /\ UNCHANGED <<sideVars, NODE_ENV, roleArn, authVars, leaseVars, provCalls, boot, req>>

----------------------------------------------------------------------------
(* The browser client: ApiService, the hooks of useS3 and the S3 config    *)
(* context.  A call is one fetch; its reply runs the operation's own check *)
(* of the response and then the error path of the hook that made the call. *)

MaxSessions == 2     \* times the setup form connects

Ops == {"testConnection", "listTopLevelFolders", "listSubfolders", "listFiles",
        "uploadFile", "deleteFile", "generatePresignedUrl"}

\* the JSON bodies the server answers with; message "" is a body without one
Responses ==
  {[status |-> 200, error |-> "", message |-> ""],
   [status |-> 401, error |-> "TOKEN_EXPIRED", message |-> "Session has expired"],
   [status |-> 401, error |-> "TOKEN_EXPIRED", message |-> ""],
   [status |-> 401, error |-> "UNAUTHORIZED", message |-> "User email not found"],
   [status |-> 403, error |-> "ACCESS_DENIED", message |-> "Your email is not authorized"],
   [status |-> 500, error |-> "AWS_INITIALIZATION_FAILED", message |-> ""],
   [status |-> 500, error |-> "AccessDenied", message |-> ""],
   [status |-> 500, error |-> "", message |-> ""]}

NoResponse == [status |-> 0, error |-> "", message |-> ""]
NoError == [thrown |-> FALSE, isTokenExpired |-> FALSE, message |-> ""]
Thrown(flag, message) == [thrown |-> TRUE, isTokenExpired |-> flag, message |-> message]

\* a || b on strings
orElse(a, b) == IF a = "" THEN b ELSE a

\* response.ok
ok(response) == response.status \in 200..299

\* ApiService.handleResponse
handleResponse(response) ==
  IF ok(response) THEN NoError
  ELSE IF response.status = 401 /\ response.error = "TOKEN_EXPIRED"
    THEN Thrown(TRUE, orElse(response.message, "Your session has expired"))
  ELSE Thrown(FALSE, orElse(response.error, "Request failed"))

\* the check the other operations make themselves
throwUnlessOk(response, fallback) ==
  IF ok(response) THEN NoError ELSE Thrown(FALSE, orElse(response.error, fallback))

\* what the operation op of ApiService throws on a response
apiCall(op, response) ==
  CASE op \in {"testConnection", "listTopLevelFolders", "listSubfolders"} ->
         handleResponse(response)
    [] op = "listFiles" -> throwUnlessOk(response, "Failed to list files")
    [] op = "uploadFile" -> throwUnlessOk(response, "Upload failed")
    [] op = "deleteFile" -> throwUnlessOk(response, "Delete failed")
    [] op = "generatePresignedUrl" ->
         throwUnlessOk(response, "Failed to generate presigned URL")

\* S3ConfigContext.handleTokenExpiration: TRUE when it cleared the config
handleTokenExpiration(error) == error.isTokenExpired

\* the hooks whose catch runs useApiErrorHandler
HandledOps == {"listTopLevelFolders", "listSubfolders", "listFiles", "uploadFile"}
\* the mutations with an onError toast
ToastingOps == {"uploadFile", "deleteFile", "generatePresignedUrl"}

BrowserIdle ==
  [config |-> FALSE, pc |-> "idle", op |-> "", sessions |-> 0,
   response |-> NoResponse, error |-> NoError, shown |-> {}]

\* the setup form initializes the service and tests the connection
Connect ==
  /\ browser.pc = "idle" /\ ~browser.config /\ browser.sessions < MaxSessions
  /\ browser' = [BrowserIdle EXCEPT !.pc = "fetch", !.op = "testConnection",
                                    !.sessions = browser.sessions + 1]
  /\ UNCHANGED <<serverVars, legacy, initReq>>

\* a component of the configured application calls an operation
Call(op) ==
  /\ browser.pc = "idle" /\ browser.config /\ op # "testConnection"
  /\ browser' = [browser EXCEPT !.pc = "fetch", !.op = op, !.response = NoResponse,
                                !.error = NoError, !.shown = {}]
  /\ UNCHANGED <<serverVars, legacy, initReq>>

\* the fetch resolves: the operation checks the response, then the error path of
\* its caller runs
Reply(response) ==
  /\ browser.pc = "fetch"
  /\ LET op == browser.op
         error == apiCall(op, response)
         expired == op \in HandledOps /\ handleTokenExpiration(error)
         shown == IF ~error.thrown THEN {}
                  ELSE (IF op = "testConnection" THEN {"formError"} ELSE {})
                    \cup (IF expired THEN {"alert"} ELSE {})
                    \cup (IF (op \in HandledOps /\ ~expired) \/ op \in ToastingOps
                            THEN {"toast"} ELSE {})
     IN browser' = [browser EXCEPT
                      !.pc = "idle", !.response = response, !.error = error,
                      !.shown = shown,
                      !.config = IF op = "testConnection" THEN ~error.thrown
                                 ELSE IF expired THEN FALSE ELSE @]
  /\ UNCHANGED <<serverVars, legacy, initReq>>

----------------------------------------------------------------------------
(* The older server (src/server.js): POST /api/s3/init takes the           *)
(* configuration from the request body and builds the client from it.      *)
(* A client is written as the configuration it was built from.             *)

MaxInits == 2        \* init request slots

InitReqs == 1..MaxInits
Buckets == {"x", "y"}

\* null, for s3Client and lastConfig
NullConfig == [bucketName |-> "", roleArn |-> FALSE]

\* request bodies: complete ones with and without a role ARN, and one without a
\* bucket name
InitConfigs ==
  [bucketName : Buckets, roleArn : BOOLEAN] \cup {[bucketName |-> "", roleArn |-> TRUE]}

LegacyIdle ==
  [s3Client |-> NullConfig, bucketName |-> "", isInitializing |-> FALSE,
   lastConfig |-> NullConfig]

InitIdle == [pc |-> "idle", config |-> NullConfig, status |-> 0, message |-> ""]

InitDone(r, status, message) == [r EXCEPT !.pc = "done", !.status = status, !.message = message]

InitOut(slot, state) == [slot |-> slot, state |-> state]

\* s3Client = new S3Client(...); lastConfig = currentConfig; isInitializing = false
clientBuilt(r, state) ==
  InitOut(InitDone(r, 200, "initialized"),
          [state EXCEPT !.s3Client = r.config, !.lastConfig = r.config,
                        !.isInitializing = FALSE])

\* the handler from the same-config test up to its await or its response
initFromConfigTest(r, state) ==
  IF state.s3Client # NullConfig /\ state.lastConfig # NullConfig
       /\ r.config = state.lastConfig
    THEN InitOut(InitDone(r, 200, "same config"), state)
  ELSE IF r.config.bucketName = ""
    THEN InitOut(InitDone(r, 400, "Missing required fields"), state)
  ELSE LET started == [state EXCEPT !.bucketName = r.config.bucketName,
                                    !.isInitializing = TRUE]
       IN IF r.config.roleArn
            THEN InitOut([r EXCEPT !.pc = "sts"], started)
            ELSE clientBuilt(r, started)

InitInstall(i, out) ==
  /\ initReq' = [initReq EXCEPT ![i] = out.slot]
  /\ legacy' = out.state
  /\ UNCHANGED <<serverVars, browser>>

\* a POST /api/s3/init request arrives
InitReceive(i, config) ==
  /\ initReq[i].pc \in {"idle", "done"}
  /\ initReq' = [initReq EXCEPT ![i] = [InitIdle EXCEPT !.pc = "recv", !.config = config]]
  /\ UNCHANGED <<serverVars, browser, legacy>>

\* the handler starts: it waits a second when an initialization is under way
InitBegin(i) ==
  /\ initReq[i].pc = "recv"
  /\ IF legacy.isInitializing
       THEN InitInstall(i, InitOut([initReq[i] EXCEPT !.pc = "wait"], legacy))
       ELSE InitInstall(i, initFromConfigTest(initReq[i], legacy))

\* the second has passed
InitTimer(i) ==
  /\ initReq[i].pc = "wait"
  /\ IF legacy.s3Client # NullConfig
       THEN InitInstall(i, InitOut(InitDone(initReq[i], 200, "already initialized"), legacy))
       ELSE InitInstall(i, initFromConfigTest(initReq[i], legacy))

\* the AssumeRole call of request i returned
InitStsReturn(i, outcome) ==
  /\ initReq[i].pc = "sts"
  /\ IF outcome = "ok"
       THEN InitInstall(i, clientBuilt(initReq[i], legacy))
       ELSE InitInstall(i, InitOut(InitDone(initReq[i], 500, outcome),
                                   [legacy EXCEPT !.isInitializing = FALSE]))

\* the state of these two parts while the production server is looked at
SideIdle ==
  /\ browser = BrowserIdle
  /\ legacy = LegacyIdle
  /\ initReq = [i \in InitReqs |-> InitIdle]

----------------------------------------------------------------------------
(* Specification of the gate and the allow-list handlers.  The role ARN is *)
(* left unset, so the startup call has built the client synchronously.     *)

Unset == ""
Envs == {"production", "development", Unset}

InitUsers ==
  /\ NODE_ENV \in Envs
  /\ roleArn = FALSE
  /\ usersFile = defaultUsers
  /\ deleted = {}
  /\ activityFile = <<>>
  /\ s3Client = 1
  /\ isInitialized = TRUE
  /\ tokenExpirationTime = Null
  /\ now = 0
  /\ provCalls = 1
  /\ boot = [pc |-> "done", attempt |-> 0, call |-> 1, result |-> "ok"]
  /\ req = [i \in Reqs |-> Idle]
  /\ SideIdle

SendUserRequest(i) ==
  \E route \in UserRoutes, header \in HeaderValues :
    \/ /\ route \in {"GET users", "GET activities"}
       /\ Send(i, route, header, undefined, "", FALSE, FALSE, "")
    \/ /\ route = "POST users"
       /\ \E email \in BodyStrings, role \in BodyRoles :
            Send(i, route, header, email, role, FALSE, FALSE, "")
    \/ /\ route = "PUT users"
       /\ \E email \in ParamStrings, role \in BodyRoles :
            Send(i, route, header, email, role, FALSE, FALSE, "")
    \/ /\ route = "DELETE users"
       /\ \E email \in ParamStrings : Send(i, route, header, email, "", FALSE, FALSE, "")

\* these handlers never await: the requests are served one at a time
Next ==
  \E i \in {1} :
    \/ SendUserRequest(i)
    \/ GetUsers(i)
    \/ \E saved \in BOOLEAN : AddUser(i, saved)
    \/ \E saved \in BOOLEAN : UpdateUser(i, saved)
    \/ \E saved \in BOOLEAN : DeleteUser(i, saved)
    \/ GetActivities(i)

Spec == InitUsers /\ [][Next]_vars

----------------------------------------------------------------------------
(* Specification of the storage routes behind the gate, in production,     *)
(* with the role ARN unset and an allow-list of one admin and one user.    *)

twoUsers ==
  Append(defaultUsers, [email |-> <<"b">>, role |-> "user", addedBy |-> DefaultAdmin])

InitStorage ==
  /\ NODE_ENV = "production"
  /\ roleArn = FALSE
  /\ usersFile \in {defaultUsers, twoUsers}
  /\ deleted = {}
  /\ activityFile = <<>>
  /\ s3Client = 1
  /\ isInitialized = TRUE
  /\ tokenExpirationTime = Null
  /\ now = 0
  /\ provCalls = 1
  /\ boot = [pc |-> "done", attempt |-> 0, call |-> 1, result |-> "ok"]
  /\ req = [i \in Reqs |-> Idle]
  /\ SideIdle

LogStatuses == {"success", "failed", "cancelled"}

SendStorageRequest(i, headers) ==
  \E header \in headers :
    \/ \E route \in ListRoutes : Send(i, route, header, undefined, "", FALSE, FALSE, "")
    \/ \E file \in BOOLEAN, key \in BOOLEAN :
         Send(i, "POST upload", header, undefined, "", file, key, "")
    \/ \E route \in {"DELETE delete", "POST presigned"}, key \in BOOLEAN :
         Send(i, route, header, undefined, "", FALSE, key, "")

SendLogDownload(i, headers) ==
  \E header \in headers, key \in BOOLEAN, status \in LogStatuses :
    Send(i, LogRoute, header, undefined, "", FALSE, key, status)

NextStorage ==
  \E i \in Reqs :
    \/ SendStorageRequest(i, HeaderValues)
    \/ SendLogDownload(i, HeaderValues)
    \/ \E disk \in Disks : BeginStorage(i, disk)
    \/ \E disk \in Disks : MulterDone(i, disk)
    \/ \E disk \in Disks : HeadReturn(i, disk)
    \/ \E outcome \in S3Outcomes, disk \in Disks : S3Return(i, outcome, disk)
    \/ \E disk \in Disks : LogDownload(i, disk)

SpecStorage == InitStorage /\ [][NextStorage]_vars

----------------------------------------------------------------------------
(* Specification of the credential lease: storage requests and the startup *)
(* call over a running clock, the gate bypassed.                           *)

InitLease ==
  /\ NODE_ENV = "development"
  /\ roleArn \in BOOLEAN
  /\ usersFile = defaultUsers
  /\ deleted = {}
  /\ activityFile = <<>>
  /\ s3Client = IF roleArn THEN 0 ELSE 1
  /\ isInitialized = ~roleArn
  /\ tokenExpirationTime = Null
  /\ now = 0
  /\ provCalls = 1
  /\ boot = IF roleArn THEN [pc |-> "sts", attempt |-> 1, call |-> 1, result |-> ""]
                       ELSE [pc |-> "done", attempt |-> 0, call |-> 1, result |-> "ok"]
  /\ req = [i \in Reqs |-> Idle]
  /\ SideIdle

NextLease ==
  \/ \E ms \in {1, TickMs} : Tick(ms)
  \/ \E outcome \in StsOutcomes : BootReturn(outcome)
  \/ \E i \in Reqs :
       \/ SendStorageRequest(i, {undefined})
       \/ \E disk \in Disks : BeginStorage(i, disk)
       \/ \E outcome \in StsOutcomes, disk \in Disks : StsReturn(i, outcome, disk)
       \/ \E disk \in Disks : MulterDone(i, disk)
       \/ \E disk \in Disks : HeadReturn(i, disk)
       \/ \E outcome \in S3Outcomes, disk \in Disks : S3Return(i, outcome, disk)

SpecLease == InitLease /\ [][NextLease]_vars

----------------------------------------------------------------------------
(* Specification of the activity log at its retention cap: download reports *)
(* of the default admin, in production, on a log that earlier requests have *)
(* filled.                                                                  *)

\* a log of n records written before the clock of the model started
filledLog(n) ==
  [k \in 1..n |-> [userEmail |-> DefaultAdmin, action |-> "download",
                   status |-> "success", timestamp |-> 0 - k]]

LogSizes == {0, 1, RetentionCap - 1, RetentionCap}

\* the records written since the clock of the model started
written(log) == {k \in 1..Len(log) : log[k].timestamp >= 0}

InitLog ==
  /\ NODE_ENV = "production"
  /\ roleArn = FALSE
  /\ usersFile = defaultUsers
  /\ deleted = {}
  /\ activityFile \in {filledLog(n) : n \in LogSizes}
  /\ s3Client = 1
  /\ isInitialized = TRUE
  /\ tokenExpirationTime = Null
  /\ now = 0
  /\ provCalls = 1
  /\ boot = [pc |-> "done", attempt |-> 0, call |-> 1, result |-> "ok"]
  /\ req = [i \in Reqs |-> Idle]
  /\ SideIdle

ReportDownload(i) ==
  /\ Cardinality(written(activityFile)) < MaxWrites
  /\ \E status \in LogStatuses :
       Receive(i, LogRoute, DefaultAdmin, undefined, "", FALSE, TRUE, status)

NextLog ==
  \/ Tick(1)
  \/ \E i \in Reqs :
       \/ ReportDownload(i)
       \/ \E disk \in Disks : LogDownload(i, disk)

SpecLog == InitLog /\ [][NextLog]_vars

----------------------------------------------------------------------------
(* Specification of concurrent storage requests: the role ARN is set, the   *)
(* startup call is in flight, and several requests are suspended at their   *)
(* awaits while the others run.  The audit file is readable and writable.   *)

Racers == 1..MaxRacers
RaceRoutes == {"GET files", "POST upload", "DELETE delete"}
okDisk == [readable |-> TRUE, writable |-> TRUE]

InitRace ==
  /\ NODE_ENV = "development"
  /\ roleArn = TRUE
  /\ usersFile = defaultUsers
  /\ deleted = {}
  /\ activityFile = <<>>
  /\ s3Client = 0
  /\ isInitialized = FALSE
  /\ tokenExpirationTime = Null
  /\ now = 0
  /\ provCalls = 1
  /\ boot = [pc |-> "sts", attempt |-> 1, call |-> 1, result |-> ""]
  /\ req = [i \in Racers |-> Idle]
  /\ SideIdle

SendRaceRequest(i) ==
  \E route \in RaceRoutes :
    Send(i, route, undefined, undefined, "", route = "POST upload", TRUE, "")

\* the answers of the token exchange that end a provisioning call
FinalStsOutcomes == {"ok", "AccessDenied"}

NextRace ==
  \/ Tick(MaxTicks * TickMs)
  \/ \E outcome \in FinalStsOutcomes : BootReturn(outcome)
  \/ \E i \in Racers :
       \/ SendRaceRequest(i)
       \/ BeginStorage(i, okDisk)
       \/ \E outcome \in FinalStsOutcomes : StsReturn(i, outcome, okDisk)
       \/ MulterDone(i, okDisk)
       \/ HeadReturn(i, okDisk)
       \/ \E outcome \in S3Outcomes : S3Return(i, outcome, okDisk)

SpecRace == InitRace /\ [][NextRace]_vars

----------------------------------------------------------------------------
(* Specifications of the browser client and of the older server's init     *)
(* route, each with the production server at rest.                         *)

ServerIdle ==
  /\ NODE_ENV = "production"
  /\ roleArn = FALSE
  /\ usersFile = defaultUsers
  /\ deleted = {}
  /\ activityFile = <<>>
  /\ s3Client = 1
  /\ isInitialized = TRUE
  /\ tokenExpirationTime = Null
  /\ now = 0
  /\ provCalls = 1
  /\ boot = [pc |-> "done", attempt |-> 0, call |-> 1, result |-> "ok"]
  /\ req = [i \in Reqs |-> Idle]

InitBrowser == ServerIdle /\ SideIdle

NextBrowser ==
  \/ Connect
  \/ \E op \in Ops : Call(op)
  \/ \E response \in Responses : Reply(response)

SpecBrowser == InitBrowser /\ [][NextBrowser]_vars

InitLegacy == ServerIdle /\ SideIdle

NextLegacy ==
  \E i \in InitReqs :
    \/ \E config \in InitConfigs : InitReceive(i, config)
    \/ InitBegin(i)
    \/ InitTimer(i)
    \/ \E outcome \in FinalStsOutcomes : InitStsReturn(i, outcome)

SpecLegacy == InitLegacy /\ [][NextLegacy]_vars

----------------------------------------------------------------------------
(* Properties *)

GatedRoutes == UserRoutes \cup AuditedRoutes \cup {LogRoute}
GateErrors == {"UNAUTHORIZED", "ACCESS_DENIED"}

LowerEmails(users) == {toLowerCase(e) : e \in Emails(users)}

\* the header names a principal of the allow-list
Authorized(header) == ~Falsy(header) /\ toLowerCase(header) \in LowerEmails(usersFile)

\* the step in which request i runs its middleware chain
Handled(i) == req[i].pc = "recv" /\ req'[i].pc # "recv"

\* request i was answered by the gate and nothing else happened
StoppedByGate(i, status, error) ==
  /\ req'[i].pc = "done" /\ req'[i].status = status /\ req'[i].error = error
  /\ req'[i].user = NoUser
  /\ UNCHANGED <<authVars, leaseVars, provCalls>>

\* C1: a request without an identity header, or with an identity that is not in
\* the allow-list, never reaches a storage operation (a provisioning, a HeadObject
\* or a storage call made for it) nor an admin operation (an admin route answered
\* by its handler).
C1_FailClosed ==
  \A i \in Reqs :
    (\/ req[i].route \in StorageRoutes /\ req[i].pc \in {"sts", "multer", "head", "s3"}
     \/ /\ req[i].route \in AdminRoutes /\ req[i].pc = "done"
        /\ req[i].error \notin GateErrors \cup {"ADMIN_REQUIRED"})
    => Authorized(req[i].header)

\* C2: a listing request (test, folders, files) without an authorized identity
\* triggers no credential provisioning and no storage call.
C2_ListingGated ==
  \A i \in Reqs :
    (req[i].route \in ListRoutes /\ (req[i].prov > 0 \/ req[i].pc \in {"sts", "s3"}))
    => Authorized(req[i].header)

\* C3: the gate assumes the default principal only when a non-production mode was
\* explicitly configured; with NODE_ENV left unset every answered request on a
\* gated route had its header checked: no header or an unknown identity is
\* answered 401 or 403 by the gate.
C3_BypassOnlyWhenConfigured ==
  \A i \in Reqs :
    (req[i].pc = "done" /\ req[i].route \in GatedRoutes) =>
      /\ req[i].user = BypassUser => NODE_ENV \notin {Unset, "production"}
      /\ (NODE_ENV = Unset /\ Falsy(req[i].header)) =>
           (req[i].status = 401 /\ req[i].user = NoUser)

C5_AdminOnly ==
  [][\A i \in Reqs :
       (Handled(i) /\ req[i].route \in AdminRoutes) =>
         /\ (req'[i].user # NoUser /\ req'[i].user.role # "admin") =>
              /\ req'[i].status = 403 /\ req'[i].error = "ADMIN_REQUIRED"
              /\ UNCHANGED authVars
         /\ (req'[i].error \notin GateErrors \cup {"ADMIN_REQUIRED"}
               \/ authVars' # authVars) =>
              req'[i].user.role = "admin"]_vars

C5_Witness ==
  \E i \in Reqs :
    /\ req[i].pc = "done" /\ req[i].route = "DELETE users"
    /\ req[i].user.role = "user" /\ req[i].error = "ADMIN_REQUIRED"
    /\ targetOf(req[i].target) = DefaultAdmin

\* C6: an admin that asks to delete itself, or to set its own role to user, is
\* rejected and the allow-list is unchanged; target and caller are compared
\* without regard to letter case.
C6_NoSelfLockout ==
  [][\A i \in Reqs :
       Handled(i) =>
         LET self == /\ req'[i].user # NoUser /\ req'[i].user.role = "admin"
                     /\ toLowerCase(req[i].target) = toLowerCase(req'[i].user.email)
         IN /\ (req[i].route = "DELETE users" /\ self) =>
                 /\ req'[i].status = 400 /\ req'[i].error = "CANNOT_DELETE_SELF"
                 /\ UNCHANGED usersFile
            /\ (req[i].route = "PUT users" /\ self /\ req[i].role = "user") =>
                 /\ req'[i].status = 400 /\ req'[i].error = "CANNOT_DEMOTE_SELF"
                 /\ UNCHANGED usersFile]_vars

C6_Witness ==
  \E i \in Reqs :
    /\ req[i].pc = "done" /\ req[i].route = "DELETE users"
    /\ req[i].target = <<"B">> /\ req[i].user.email = <<"b">>
    /\ req[i].error = "CANNOT_DELETE_SELF" /\ NODE_ENV = "production"

DeletedStaysOut(modes) ==
  \A i \in Reqs :
    (Handled(i) /\ req[i].route \in GatedRoutes) =>
      /\ (NODE_ENV \in modes /\ toLowerCase(req[i].header) \in deleted) =>
           (req'[i].status \in {401, 403} /\ req'[i].error \in GateErrors)
      /\ \A e \in req'[i].listing : toLowerCase(e) \notin deleted'

\* C8 as stated: once an admin's delete of b succeeded, b is in no later listing and
\* every later gated request carrying b's identity is rejected by the gate, until
\* b is added again.  Stated for the modes that are set explicitly; what the gate
\* does with NODE_ENV unset is the subject of C3.
C8_DeletedRejected ==
  /\ [](deleted \cap LowerEmails(usersFile) = {})
  /\ [][DeletedStaysOut(Envs \ {Unset})]_vars

\* C8 amended: the same, the gate rejecting b's requests in production mode.
C8_DeletedRejectedInProduction ==
  /\ [](deleted \cap LowerEmails(usersFile) = {})
  /\ [][DeletedStaysOut({"production"})]_vars

C8_Witness ==
  \E i \in Reqs :
    /\ NODE_ENV = "production" /\ req[i].pc = "done" /\ req[i].route \in GatedRoutes
    /\ toLowerCase(req[i].header) \in deleted /\ req[i].error = "ACCESS_DENIED"

\* the step in which request i runs ensureS3Client
Ensured(i) ==
  Handled(i) /\ req[i].route \in StorageRoutes /\ req'[i].error \notin GateErrors

\* C9: ensureS3Client makes a provisioning call exactly when there is no lease or
\* the lease is stale (expiry set and now > expiry); a call that finds a fresh lease
\* or a lease without expiry makes none and leaves the lease as it is, and no other
\* step starts a provisioning.
C9_ProvisionIffNeeded ==
  [][/\ \A i \in Reqs :
          Ensured(i) =>
            LET stale == tokenExpirationTime # Null /\ now > tokenExpirationTime
            IN /\ (~isInitialized \/ stale) => provCalls' = provCalls + 1
               /\ ~(~isInitialized \/ stale) =>
                    (provCalls' = provCalls /\ UNCHANGED leaseVars)
     /\ provCalls' # provCalls => \E i \in Reqs : Ensured(i)]_vars

C9_Witness ==
  \E i \in Reqs :
    /\ req[i].pc = "done" /\ req[i].status = 200 /\ req[i].was = "fresh"
    /\ req[i].prov = 0 /\ provCalls = 1 /\ roleArn /\ tokenExpirationTime # Null

\* C10: once the clock is past the expiry of the lease, the next ensureS3Client
\* starts exactly one provisioning call; when that call succeeds the lease is
\* replaced and its expiry is later than the time of issue; a call made while that
\* lease is held and the clock is not past its expiry starts none.
C10_ExpiryReprovisionsOnce ==
  [][\A i \in Reqs :
       /\ (Ensured(i) /\ isInitialized /\ tokenExpirationTime # Null
             /\ now > tokenExpirationTime) =>
            (provCalls' = provCalls + 1 /\ req'[i].pc = "sts" /\ req'[i].prov = 1)
       /\ (req[i].pc = "sts" /\ req'[i].pc # "sts"
             /\ req'[i].error # "AWS_INITIALIZATION_FAILED") =>
            /\ s3Client' # 0 /\ s3Client' # s3Client /\ isInitialized'
            /\ tokenExpirationTime' # Null /\ tokenExpirationTime' > now
            /\ provCalls' = provCalls
       /\ (Ensured(i) /\ isInitialized /\ tokenExpirationTime # Null
             /\ now <= tokenExpirationTime) =>
            (provCalls' = provCalls /\ req'[i].prov = 0)]_vars

C10_Witness ==
  \E i \in Reqs :
    /\ req[i].pc = "s3" /\ req[i].was = "stale" /\ req[i].prov = 1
    /\ req[i].client = s3Client /\ isInitialized /\ tokenExpirationTime > now

\* the attempt numbers of the AssumeRole calls that are in flight
AttemptsInFlight ==
  (IF boot.pc = "sts" THEN {boot.attempt} ELSE {})
    \cup {req[i].attempt : i \in {j \in Reqs : req[j].pc = "sts"}}

\* C11: provisioning tries the durations in descending order: the first AssumeRole
\* of a provisioning asks for 3600 seconds, every retry after a duration-exceeds
\* failure asks for less than the attempt before it, and a success sets the expiry to
\* the time of the answer plus the duration of the attempt that succeeded.
C11_DescendingDurations ==
  /\ [](\A a \in AttemptsInFlight : a = 1 => durations[a] = 3600)
  /\ [][/\ (boot.pc = "sts" /\ boot'.pc = "sts" /\ boot'.attempt # boot.attempt) =>
             durations[boot'.attempt] < durations[boot.attempt]
        /\ (boot.pc = "sts" /\ boot'.result = "ok") =>
             tokenExpirationTime' = now + durations[boot.attempt] * 1000
        /\ \A i \in Reqs :
             /\ (req[i].pc = "sts" /\ req'[i].pc = "sts") =>
                  durations[req'[i].attempt] < durations[req[i].attempt]
             /\ (req[i].pc = "sts" /\ req'[i].pc # "sts"
                   /\ req'[i].error # "AWS_INITIALIZATION_FAILED") =>
                  tokenExpirationTime' = now + durations[req[i].attempt] * 1000]_vars

\* the storage call of request i returns in this step, with a token-expired error
ReturnsExpired(i) == req[i].pc = "s3" /\ req'[i].outcome = "ExpiredToken"

\* C12: a storage call that fails with a token-expired error is followed, within the
\* same request, by exactly one forced provisioning and one retry of the call: the
\* request is not answered by the step in which its first call fails, and that step
\* starts one provisioning; when the retried call fails the same way the request is
\* answered with an error and no provisioning is started.
C12_RetryOnce ==
  [][\A i \in Reqs :
       ReturnsExpired(i) =>
         IF req[i].outcome # "ExpiredToken"
           THEN req'[i].pc \in {"sts", "s3"} /\ provCalls' = provCalls + 1
           ELSE /\ req'[i].pc = "done" /\ req'[i].status >= 400
                /\ provCalls' = provCalls]_vars

ProvisioningFails(i) ==
  req[i].pc = "sts" /\ req'[i].error = "AWS_INITIALIZATION_FAILED"
BootFails == boot.pc = "sts" /\ boot'.result = "failed"

\* C14: a failed provisioning leaves no part of a lease in the cache: no client, not
\* initialized, and no expiry time, neither of the failed attempt nor of the lease
\* held before; and the next ensureS3Client starts a provisioning.
C14_NothingRetained ==
  [][/\ (BootFails \/ \E i \in Reqs : ProvisioningFails(i)) =>
          (s3Client' = 0 /\ ~isInitialized' /\ tokenExpirationTime' = Null)
     /\ \A i \in Reqs :
          (Ensured(i) /\ s3Client = 0) => provCalls' = provCalls + 1]_vars

\* C15: an upload, delete or presign whose storage call succeeded is answered with
\* success whether or not its audit record could be written: the answer is 200 also
\* in the steps that leave the audit store as it was.
C15_SuccessDespiteAudit ==
  [][\A i \in Reqs :
       (req[i].pc = "s3" /\ req[i].route \in AuditedRoutes /\ req'[i].outcome = "ok") =>
         (req'[i].pc = "done" /\ req'[i].status = 200 /\ req'[i].error = "")]_vars

C15_Witness ==
  \E i \in Reqs :
    /\ req[i].pc = "done" /\ req[i].route = "POST upload" /\ req[i].outcome = "ok"
    /\ req[i].status = 200 /\ activityFile = <<>>

\* request i, on an audited route, takes a step of its middleware chain or handler
Steps(i) ==
  req[i].route \in AuditedRoutes /\ req[i].pc \notin {"idle", "done"} /\ req'[i] # req[i]

\* C16: an upload, delete or presign request that attempted its storage call writes one
\* audit record, in the step that answers it: marked success when the call succeeded
\* and failed when it failed (a write that fails leaves the store as it was); every
\* other step of such a request, and a request answered without a storage call,
\* leaves the audit store unchanged.
C16_OneRecordPerAttempt ==
  [][\A i \in Reqs :
       Steps(i) =>
         IF req'[i].pc = "done" /\ req'[i].outcome # ""
           THEN activityFile' # activityFile =>
                  /\ Len(activityFile') <= Len(activityFile) + 1
                  /\ Head(activityFile').action = auditAction(req[i].route)
                  /\ Head(activityFile').status =
                       (IF req'[i].outcome = "ok" THEN "success" ELSE "failed")
           ELSE activityFile' = activityFile]_vars

\* C17: a request whose provisioning fails in ensureS3Client is answered 500 by that
\* step and does nothing else: it has issued no storage call and the audit store is
\* unchanged; such a request never holds a client.
C17_AbortWithoutEffect ==
  [][\A i \in Reqs :
       ProvisioningFails(i) =>
         /\ req'[i].pc = "done" /\ req'[i].status = 500
         /\ req'[i].outcome = "" /\ req[i].client = 0
         /\ UNCHANGED <<activityFile, usersFile>>]_vars

C17_Witness ==
  \E i \in Reqs :
    /\ req[i].pc = "done" /\ req[i].route = "POST upload"
    /\ req[i].error = "AWS_INITIALIZATION_FAILED" /\ req[i].attempt = 0
    /\ req[i].was = "stale"

\* C18: the audit store never holds more than RetentionCap records and is ordered
\* newest first; a write changes it only by putting the new record in front and, at
\* the cap, dropping the oldest record: the records that remain are the former ones,
\* unmodified and in their order.
C18_CappedNewestFirst ==
  /\ [](Len(activityFile) <= RetentionCap)
  /\ [](\A k \in 1..(Len(activityFile) - 1) :
          activityFile[k].timestamp >= activityFile[k + 1].timestamp)
  /\ [][activityFile' # activityFile =>
          /\ Len(activityFile') =
               (IF Len(activityFile) < RetentionCap THEN Len(activityFile) + 1
                ELSE RetentionCap)
          /\ \A k \in 2..Len(activityFile') : activityFile'[k] = activityFile[k - 1]]_vars

\* C19: every record of the audit store has an action among upload, download and
\* delete, and an outcome that is one of the two fixed values success and failed.
C19_RecordEnums ==
  \A k \in 1..Len(activityFile) :
    /\ activityFile[k].action \in {"upload", "download", "delete"}
    /\ activityFile[k].status \in {"success", "failed"}

\* C20: within one upload, delete or presign request the steps come in the order
\* gate, ensureS3Client, storage call, audit write: a request that has provisioned or
\* is past the gate carries the principal the gate attached; a request that is in its
\* handler or has an outcome of its storage call has been through ensureS3Client; and
\* a step of the request writes to the audit store only when the request's storage
\* call has returned or failed.
C20_StrictSequence ==
  /\ [](\A i \in Reqs :
          req[i].route \in AuditedRoutes =>
            /\ (req[i].prov > 0 \/ req[i].pc \in {"sts", "multer", "head", "s3"}) =>
                 (req[i].user # NoUser /\ Authorized(req[i].header))
            /\ (req[i].pc \in {"multer", "head", "s3"} \/ req[i].outcome # "") =>
                 req[i].was # "")
  /\ [][\A i \in Reqs :
          (Steps(i) /\ activityFile' # activityFile) => req'[i].outcome # ""]_vars

\* request i issues a storage call in this step (HeadObject or the command of its
\* route): the call is in flight afterwards, or it threw on a null client
IssuesCall(i) ==
  /\ req[i].pc \in {"recv", "sts", "multer", "head"}
  /\ \/ req'[i].pc \in {"head", "s3"} /\ req'[i].pc # req[i].pc
     \/ req'[i].outcome = "TypeError"

\* C21: whenever a handler that has passed ensureS3Client issues a storage call, the
\* client slot is non-null, whatever other requests and the startup call did while
\* the request was suspended.
C21_ClientAtCall ==
  [][\A i \in DOMAIN req : IssuesCall(i) => s3Client' # 0]_vars

\* the provisioning call of request i succeeds in this step
ProvisioningSucceeds(i) ==
  req[i].pc = "sts" /\ req'[i].pc # "sts" /\ req'[i].error # "AWS_INITIALIZATION_FAILED"
BootSucceeds == boot.pc = "sts" /\ boot'.result = "ok"

\* every provisioning call made so far succeeded or is still in flight, and no
\* storage call has invalidated the lease
AllProvisioningOk ==
  /\ boot.result # "failed"
  /\ \A i \in DOMAIN req :
       req[i].error \notin {"AWS_INITIALIZATION_FAILED", "TOKEN_EXPIRED"}

\* C22: while every provisioning call succeeds, concurrent calls do not corrupt the
\* slot: a step changes the lease only by installing, all at once, the client and the
\* expiry of the one provisioning call that returned in that step, so a suspended
\* request finds the prior lease or a complete one; and no request makes more than
\* one provisioning call.
C22_RedundantCallsHarmless ==
  /\ [][(AllProvisioningOk /\ AllProvisioningOk') =>
          /\ \A i \in DOMAIN req :
               ProvisioningSucceeds(i) =>
                 /\ s3Client' = req[i].call /\ isInitialized'
                 /\ tokenExpirationTime' = now + durations[req[i].attempt] * 1000
          /\ BootSucceeds =>
               /\ s3Client' = boot.call /\ isInitialized'
               /\ tokenExpirationTime' = now + durations[boot.attempt] * 1000
          /\ leaseVars' # leaseVars =>
               (BootSucceeds \/ \E i \in DOMAIN req : ProvisioningSucceeds(i))]_vars
  /\ [](\A i \in DOMAIN req : req[i].prov <= 1)

\* two requests found no lease, both provisioned, and the slot holds the lease of
\* the call that returned last
C22_Witness ==
  \E i, j \in DOMAIN req :
    /\ i # j /\ AllProvisioningOk
    /\ req[i].was = "none" /\ req[j].was = "none" /\ req[i].prov = 1 /\ req[j].prov = 1
    /\ req[i].pc = "done" /\ req[i].status = 200 /\ req[j].pc \in {"multer", "head", "s3"}
    /\ s3Client = req[j].client /\ s3Client # 0 /\ isInitialized
    /\ tokenExpirationTime # Null

\* C23: a provisioning call makes at most Len(durations) = 3 AssumeRole attempts: an
\* attempt that succeeds ends the call with a lease; an attempt that fails with
\* anything but a duration-exceeds error ends the call as failed at once; a
\* duration-exceeds failure is followed by the next duration while one is left, and
\* ends the call as failed when it was the last.
C23_BoundedAttempts ==
  /\ [](\A a \in AttemptsInFlight : a \in 1..Len(durations))
  /\ [][/\ \A i \in Reqs, outcome \in StsOutcomes, disk \in Disks :
             StsReturn(i, outcome, disk) =>
               CASE outcome = "ok" ->
                      req'[i].pc # "sts" /\ ~ProvisioningFails(i) /\ isInitialized'
                 [] outcome = "DurationSeconds exceeds" /\ req[i].attempt < Len(durations) ->
                      req'[i].pc = "sts" /\ req'[i].attempt = req[i].attempt + 1
                 [] OTHER -> ProvisioningFails(i) /\ req'[i].pc = "done"
        /\ \A outcome \in StsOutcomes :
             BootReturn(outcome) =>
               CASE outcome = "ok" -> boot'.pc = "done" /\ boot'.result = "ok"
                 [] outcome = "DurationSeconds exceeds" /\ boot.attempt < Len(durations) ->
                      boot'.pc = "sts" /\ boot'.attempt = boot.attempt + 1
                 [] OTHER -> BootFails /\ boot'.pc = "done"]_vars

\* a request's provisioning call is at its third and last attempt
C23_Witness ==
  \E i \in Reqs :
    /\ req[i].pc = "sts" /\ req[i].attempt = Len(durations) /\ req[i].prov = 1
    /\ boot.pc = "done"

\* the lease in the slot was installed by a provisioning call that succeeded and
\* nothing has invalidated it since
HoldsInstalledLease == isInitialized /\ s3Client # 0

\* the lease in the slot was installed while the provisioning call of request i was
\* in flight: the request found no lease, or the call that installed it began later
InstalledMeanwhile(i) ==
  HoldsInstalledLease /\ (req[i].was = "none" \/ s3Client > req[i].call)

\* C24: when two provisioning calls overlap and one of them has installed its lease,
\* the failure of the other leaves that lease in the slot.  The startup call is the
\* first call, so any lease held when it fails was installed while it was in flight.
C24_SuccessSurvivesFailure ==
  [][/\ \A i \in DOMAIN req :
          (ProvisioningFails(i) /\ InstalledMeanwhile(i)) => UNCHANGED leaseVars
     /\ (BootFails /\ HoldsInstalledLease) => UNCHANGED leaseVars]_vars

Admins(users) == {k \in 1..Len(users) : users[k].role = "admin"}

ReturnsOtherError(i) == req[i].pc = "s3" /\ req'[i].outcome = "AccessDenied"

PastExpiry == tokenExpirationTime # Null /\ now > tokenExpirationTime

TokenExpiredResponses == {r \in Responses : r.status = 401 /\ r.error = "TOKEN_EXPIRED"}

\* C27: whatever operation of ApiService received a 401 TOKEN_EXPIRED response, the
\* error it threw is flagged isTokenExpired, no stored configuration is left, and no
\* generic error toast was shown for it.
C27_ExpiryEndsSession ==
  (browser.pc = "idle" /\ browser.response \in TokenExpiredResponses) =>
    /\ browser.error.isTokenExpired
    /\ ~browser.config
    /\ "toast" \notin browser.shown

\* the init requests whose AssumeRole call is in flight
Exchanging == {i \in InitReqs : initReq[i].pc = "sts"}

\* C28: in server.js at most one AssumeRole exchange of POST /api/s3/init is in
\* flight at any time, and isInitializing is false whenever no init request is
\* being served.
C28_OneProvisioningAtATime ==
  /\ Cardinality(Exchanging) <= 1
  /\ (\A i \in InitReqs : initReq[i].pc \in {"idle", "done"}) => ~legacy.isInitializing

\* C29: whenever POST /api/s3/init answers success to a request carrying a
\* configuration, the client in use was built from that configuration, and
\* bucketName and lastConfig are the ones of that configuration.
C29_SuccessMatchesConfig ==
  [][\A i \in InitReqs :
       (initReq[i].pc # "done" /\ initReq'[i].pc = "done" /\ initReq'[i].status = 200) =>
         /\ legacy'.s3Client = initReq[i].config
         /\ legacy'.bucketName = initReq[i].config.bucketName
         /\ legacy'.lastConfig = initReq[i].config]_vars

\* C30: in every state of the server, between the awaits of concurrent requests
\* included, isInitialized implies a non-null client; and a step that changes one
\* of the two leaves them set together or cleared together.
C30_InitializedHasClient ==
  /\ [](isInitialized => s3Client # 0)
  /\ [][(isInitialized' # isInitialized \/ (s3Client' = 0) # (s3Client = 0)) =>
          (isInitialized' <=> s3Client' # 0)]_vars

\* a suspended request holds the lease its own provisioning installed, beside a
\* request that was answered with a token-expired error or a failed provisioning
C30_Witness ==
  \E i, j \in DOMAIN req :
    /\ i # j /\ isInitialized /\ s3Client # 0 /\ s3Client = req[i].client
    /\ req[i].prov = 1 /\ req[i].pc \in {"multer", "head", "s3"}
    /\ req[j].pc = "done" /\ req[j].error \in {"TOKEN_EXPIRED", "AWS_INITIALIZATION_FAILED"}

====
